---- MODULE Spec2Model ----
(***************************************************************************)
(* Encoder-decoder Transformer with an incremental decode state machine    *)
(* (src/models/transformer_other.py) and the checkpoint-loading driver     *)
(* (src/src/run.py).                                                       *)
(*                                                                         *)
(* Tensors are modelled symbolically.  A tensor of shape [batch, time, d]  *)
(* is a sequence over the batch of sequences over time of TERMS; a term    *)
(* records the operation that produced the vector and the terms it was     *)
(* computed from.  A Dense layer is the sequence of its weight columns     *)
(* (column c stands for W[:, c] together with b[c]); slicing and           *)
(* concatenating weights are SubSeq and \o on columns.  Attention records  *)
(* the query and the (position, key, value) triples its mask lets through. *)
(***************************************************************************)
EXTENDS Integers, Sequences, FiniteSets, TLC

VARIABLES
    model,   \* the constructed Model (its Transformer and hyper-parameters)
    batch,   \* <<>> before Model.encode, then <<the batch it was given>>
    pool,    \* the DecStates the caller holds, each with its decode-call count
    score,   \* <<>> or <<the last symbolic_score result>>
    raised,  \* outcome of the last call: "none" or the error it raised
    ctor,    \* last constructor call and its outcome
    run,     \* run_model's position and effects
    sig      \* last _add_timing_signal / _make_dec_attn_mask evaluation

vars == <<model, batch, pool, score, raised, ctor, run, sig>>

----------------------------------------------------------------------------
(* Bounds of the model *)

MaxLayers == 2
MaxBatch == 2
MaxInpLen == 2
MaxPool == 3
MaxLen == 3
MaxSrcBatches == 2

(* Program constants *)

BIG_LEN == 32000

----------------------------------------------------------------------------
(* Generic helpers *)

None == <<>>

Some(x) == <<x>>

Max(a, b) == IF a >= b THEN a ELSE b

Last(s) == s[Len(s)]

\* a sequence given by its entries, evaluated once
Tensor(s) == s \o <<>>

\* python truthiness of an optional size: None and 0 both select the default
OrElse(x, d) == IF x /= 0 THEN x ELSE d

----------------------------------------------------------------------------
(* lib.layers: Dense, ResidualLayerWrapper (not part of src/) *)

\* the variable `leaf` in the scope of layer <<kind, i>>
Var(name, leaf) == <<name[1], name[2], leaf>>

\* a fresh weight matrix with n columns, owned by variable `name`
Columns(name, n) == Tensor([c \in 1..n |-> <<name, c>>])

\* Dense(name, inp_size, out_size, W=None): creates its own variable unless
\* a matrix W is passed in
Dense(name, out_size, W) ==
    [name    |-> name,
     W       |-> IF W = None THEN Columns(name, out_size) ELSE W[1],
     created |-> IF W = None THEN {name} ELSE {}]

\* applying a Dense layer to one vector (identity activation)
Apply(dense, x) == [W |-> dense.W, x |-> x]

\* one piece of tf.split(t, sizes, axis=-1): n columns starting after `skip`
Piece(t, skip, n) == [W |-> SubSeq(t.W, skip + 1, skip + n), x |-> t.x]

\* ResidualLayerWrapper.preprocess: the pre-normalisation step
Preprocess(name, x) == [norm |-> name, x |-> x]

----------------------------------------------------------------------------
(* MultiHeadAttn *)

Formats == {"use_kv", "combined"}

\* MultiHeadAttn.__init__
MultiHeadAttn(name, key_depth, value_depth, output_depth, num_heads, format) ==
    IF format = "use_kv" THEN
        LET q  == Dense(Var(name, "query_conv"), key_depth, None)
            kv == Dense(Var(name, "mem_conv"), key_depth + value_depth, None)
        IN  [ok |-> TRUE, error |-> "none", name |-> name,
             key_depth |-> key_depth, value_depth |-> value_depth,
             num_heads |-> num_heads, format |-> format,
             query_conv |-> q, kv_conv |-> kv,
             combined_conv |-> Dense(Var(name, "combined_conv"),
                                     key_depth * 2 + value_depth,
                                     Some(q.W \o kv.W)),
             out_conv |-> Dense(Var(name, "out_conv"), output_depth, None),
             created |-> {q.name, kv.name, Var(name, "out_conv")}]
    ELSE IF format = "combined" THEN
        LET c == Dense(Var(name, "mem_conv"), key_depth * 2 + value_depth, None)
        IN  [ok |-> TRUE, error |-> "none", name |-> name,
             key_depth |-> key_depth, value_depth |-> value_depth,
             num_heads |-> num_heads, format |-> format,
             query_conv |-> Dense(Var(name, "query_conv"), key_depth,
                                  Some(SubSeq(c.W, 1, key_depth))),
             kv_conv |-> Dense(Var(name, "kv_conv"), key_depth + value_depth,
                               Some(SubSeq(c.W, key_depth + 1, Len(c.W)))),
             combined_conv |-> c,
             out_conv |-> Dense(Var(name, "out_conv"), output_depth, None),
             created |-> {c.name, Var(name, "out_conv")}]
    ELSE
        [ok |-> FALSE, error |-> "Unexpected format", name |-> name,
         key_depth |-> key_depth, value_depth |-> value_depth,
         num_heads |-> num_heads, format |-> format,
         query_conv |-> None, kv_conv |-> None, combined_conv |-> None,
         out_conv |-> None, created |-> {}]

\* entry of an attention mask row, broadcast over a size-1 axis
MaskAt(mask, i, j) ==
    LET row == mask[IF Len(mask) = 1 THEN 1 ELSE i]
    IN  row[IF Len(row) = 1 THEN 1 ELSE j]

\* whether attn_bias [n_q' * n_kv'] can be added to logits [n_q * n_kv]
Broadcastable(mask, n_q, n_kv) ==
    /\ Len(mask) \in {1, n_q}
    /\ \A r \in 1..Len(mask) : Len(mask[r]) \in {1, n_kv}

\* key positions (0-based) that query i attends: attn_bias is -1e9 where the
\* mask is 0, so softmax gives those keys no weight
Visible(mask, i, n_kv) == {j \in 0..(n_kv - 1) : MaskAt(mask, i, j + 1) = 1}

RECURSIVE SetToSeq(_)
SetToSeq(S) ==
    IF S = {} THEN <<>>
    ELSE LET m == CHOOSE x \in S : \A y \in S : x <= y
         IN  <<m>> \o SetToSeq(S \ {m})

KeyValueUnshifted(t, skip, key_depth, value_depth) ==
    [kW |-> SubSeq(t.W, 1, key_depth),
     vW |-> SubSeq(t.W, key_depth + 1, key_depth + value_depth),
     x  |-> t.x]

\* the key and the value tf.split cuts out of a key/value projection whose
\* key columns start after `skip`
KeyValue(t, skip, key_depth, value_depth) ==
    [kW |-> SubSeq(t.W, skip + 1, skip + key_depth),
     vW |-> SubSeq(t.W, skip + key_depth + 1, skip + key_depth + value_depth),
     x  |-> t.x]

\* MultiHeadAttn.__call__ for one batch element.  query_inp: sequence of
\* n_q terms; attn_mask: rows of 0/1; kv_inp, kv: None or Some(sequence).
\* The result for query i: the query projection and the (position, key,
\* value) triples that get softmax weight
Attend(attn, query_inp, attn_mask, kv_inp, kv) ==
    LET self == kv_inp = None /\ kv = None
        comb == Tensor([i \in 1..Len(query_inp) |-> Apply(attn.combined_conv, query_inp[i])])
        q    == IF self
                THEN Tensor([i \in 1..Len(query_inp) |-> Piece(comb[i], 0, attn.key_depth)])
                ELSE Tensor([i \in 1..Len(query_inp) |-> Apply(attn.query_conv, query_inp[i])])
        kvp  == IF kv /= None THEN kv[1]
                ELSE IF kv_inp /= None
                THEN Tensor([j \in 1..Len(kv_inp[1]) |-> Apply(attn.kv_conv, kv_inp[1][j])])
                ELSE <<>>
        keys == IF self
                THEN Tensor([j \in 1..Len(comb) |->
                        KeyValue(comb[j], attn.key_depth, attn.key_depth, attn.value_depth)])
                ELSE Tensor([j \in 1..Len(kvp) |->
                        KeyValue(kvp[j], 0, attn.key_depth, attn.value_depth)])
    IN  Tensor([i \in 1..Len(query_inp) |->
            [attn |-> attn.name,
             q    |-> q[i],
             kv   |-> LET vis == SetToSeq(Visible(attn_mask, i, Len(keys)))
                      IN  Tensor([n \in 1..Len(vis) |-> <<vis[n], keys[vis[n] + 1]>>])]])

\* MultiHeadAttn._split_heads: the reshape to [.., num_heads, -1] needs the
\* depth to be a multiple of num_heads
SplitHeadsOk(attn) ==
    /\ attn.key_depth % attn.num_heads = 0
    /\ attn.value_depth % attn.num_heads = 0

----------------------------------------------------------------------------
(* FFN *)

FFN(name) == [name |-> name, created |-> {Var(name, "conv1"), Var(name, "conv2")}]

----------------------------------------------------------------------------
(* Transformer.__init__ *)

\* The arguments of a constructor call are a record: n_args counts the
\* positional arguments after out_voc, kwargs holds the undeclared keyword
\* names, a size of 0 stands for None.

UnionSeq(s) == UNION {s[i].created : i \in DOMAIN s}

CrossFormat(multihead_attn_format) ==
    IF multihead_attn_format = "v1" THEN "use_kv" ELSE "combined"

ArgsErrorHeadsOnly(a) ==
    IF OrElse(a.key_size, a.hid_size) % a.num_heads /= 0 THEN "Bad number of heads"
    ELSE IF OrElse(a.value_size, a.hid_size) % a.num_heads /= 0
    THEN "Bad number of heads"
    ELSE "none"

\* the checks Transformer.__init__ makes before it creates anything:
\* positional arguments after out_voc, then the head count against the key
\* and the value size.  Keywords it does not declare land in **_kwargs and
\* are not looked at
ArgsError(a) ==
    IF a.n_args > 0 THEN "Unexpected positional arguments"
    ELSE IF OrElse(a.key_size, a.hid_size) % a.num_heads /= 0
    THEN "Bad number of heads"
    ELSE IF OrElse(a.value_size, a.hid_size) % a.num_heads /= 0
    THEN "Bad number of heads"
    ELSE "none"

Transformer(a) ==
    LET emb_size   == OrElse(a.emb_size, a.hid_size)
        key_size   == OrElse(a.key_size, a.hid_size)
        value_size == OrElse(a.value_size, a.hid_size)
        failed(msg) ==
            [ok |-> FALSE, error |-> msg, created |-> {},
             num_layers_dec |-> 0, emb_size |-> emb_size, hid_size |-> a.hid_size,
             rescale_emb |-> a.rescale_emb, dst_rand_offset |-> a.dst_rand_offset,
             normalize_out |-> a.normalize_out,
             emb_inp |-> None, emb_out |-> None,
             enc_attn |-> <<>>, dec_attn |-> <<>>, dec_enc_attn |-> <<>>, dec_ffn |-> <<>>]
        max_voc    == Max(a.inp_voc, a.out_voc)
        emb_inp    == [name |-> "emb_inp",
                       rows |-> IF a.share_emb THEN max_voc ELSE a.inp_voc,
                       cols |-> emb_size]
        emb_out    == [name |-> IF a.share_emb THEN "emb_inp" ELSE "emb_out",
                       rows |-> IF a.share_emb THEN max_voc ELSE a.out_voc,
                       cols |-> emb_size]
        mha(kind, format) ==
            Tensor([i \in 1..a.num_layers |->
                MultiHeadAttn(<<kind, i - 1>>, key_size, value_size, a.hid_size,
                              a.num_heads, format)])
        enc_attn     == mha("enc_attn", "combined")
        dec_attn     == mha("dec_attn", "combined")
        dec_enc_attn == mha("dec_enc_attn", CrossFormat(a.multihead_attn_format))
        enc_ffn      == Tensor([i \in 1..a.num_layers |-> FFN(<<"enc_ffn", i - 1>>)])
        dec_ffn      == Tensor([i \in 1..a.num_layers |-> FFN(<<"dec_ffn", i - 1>>)])
    IN  IF ArgsError(a) /= "none" THEN failed(ArgsError(a))
        ELSE
            [ok |-> TRUE, error |-> "none",
             created |-> {<<"emb_inp", 0, "mat">>}
                         \cup (IF a.share_emb THEN {} ELSE {<<"emb_out", 0, "mat">>})
                         \cup UnionSeq(enc_attn) \cup UnionSeq(enc_ffn)
                         \cup UnionSeq(dec_attn) \cup UnionSeq(dec_enc_attn)
                         \cup UnionSeq(dec_ffn),
             num_layers_dec |-> a.num_layers, emb_size |-> emb_size,
             hid_size |-> a.hid_size,
             rescale_emb |-> a.rescale_emb, dst_rand_offset |-> a.dst_rand_offset,
             normalize_out |-> a.normalize_out,
             emb_inp |-> Some(emb_inp), emb_out |-> Some(emb_out),
             enc_attn |-> enc_attn, dec_attn |-> dec_attn,
             dec_enc_attn |-> dec_enc_attn, dec_ffn |-> dec_ffn]

----------------------------------------------------------------------------
(* Position signal and masks *)

\* offsets handed to _add_timing_signal: a python number, a tensor with one
\* entry per batch element, or 'random', whose draw has the shape of
\* `position`, [1, ninp, 1]: one value per time-step
Number(n) == [kind |-> "number", val |-> n]

PerBatch(v) == [kind |-> "tensor", val |-> v]

Random(draw) == [kind |-> "random", val |-> draw]

OffsetAtDropped(offset, b, t) == 0

\* what `offset` adds to position [b, t] after broadcasting (t is 1-based)
OffsetAt(offset, b, t) ==
    IF offset.kind = "number" THEN offset.val
    ELSE IF offset.kind = "tensor" THEN offset.val[b]
    ELSE offset.val[t]

\* the position index of time-step t of batch element b: tf.range(ninp)
\* plus the offset, negated where inp_reverse is set
PositionIndex(offset, inp_reverse, b, t) ==
    LET position == (t - 1) + OffsetAt(offset, b, t)
    IN  IF inp_reverse /= None /\ inp_reverse[1][b] /= 0
        THEN (0 - 1) * position ELSE position

\* the signal of one position: sines then cosines of position * timescale,
\* padded with one zero column when hid_size is odd.  The timescales are
\* spaced by log(max/min) / (num_timescales - 1), which is a number only
\* when hid_size is at least 4
Signal(position, hid_size) ==
    LET num_timescales == hid_size \div 2
    IN  Tensor([c \in 1..hid_size |->
            IF c <= num_timescales THEN <<"sin", position, c - 1>>
            ELSE IF c <= 2 * num_timescales
            THEN <<"cos", position, c - 1 - num_timescales>>
            ELSE <<"pad", 0, 0>>])

\* Transformer._add_timing_signal on inp [batch][time]
AddTimingSignal(inp, hid_size, offset, inp_reverse) ==
    Tensor([b \in 1..Len(inp) |->
        Tensor([t \in 1..Len(inp[b]) |->
            [x      |-> inp[b][t],
             signal |-> Signal(PositionIndex(offset, inp_reverse, b, t), hid_size)]])])

MakeDecAttnMaskStrict(length) ==
    Tensor([i \in 1..length |-> Tensor([j \in 1..length |-> IF j < i THEN 1 ELSE 0])])

\* Transformer._make_dec_attn_mask: tf.matrix_band_part(ones, -1, 0), one
\* [length * length] matrix shared by the whole batch
MakeDecAttnMask(length) ==
    Tensor([i \in 1..length |-> Tensor([j \in 1..length |-> IF j <= i THEN 1 ELSE 0])])

\* Transformer._make_enc_attn_mask: tf.sequence_mask(inp_len, maxlen=ninp)
MakeEncAttnMask(inp, inp_len) ==
    Tensor([b \in 1..Len(inp) |->
        Tensor([j \in 1..Len(inp[b]) |-> IF j <= inp_len[b] THEN 1 ELSE 0])])

----------------------------------------------------------------------------
(* Embeddings and the encoder *)

ZeroEmb == [word |-> 0, scaled |-> FALSE, zero |-> TRUE]

\* trans.emb_out(words), rescaled by emb_size ** .5 when rescale_emb is set
EmbOut(trans, w) == [word |-> w, scaled |-> trans.rescale_emb, zero |-> FALSE]

\* Transformer.encode: the encoder output of position j of a sequence is a
\* function of that sequence's ids and length (offset 0, no dropout)
TransformerEncode(inp, inp_len) ==
    [enc_out |-> Tensor([b \in 1..Len(inp) |->
                    Tensor([j \in 1..Len(inp[b]) |->
                        [enc |-> inp[b], len |-> inp_len[b], at |-> j]])]),
     enc_attn_mask |-> MakeEncAttnMask(inp, inp_len)]

\* num_layers_dec == 0: tf.squeeze(.., 3) of the transposed mask needs a
\* batch of one; the mean of the masked encoder output is added to the input
BypassOk(trans, nbatch) == trans.num_layers_dec > 0 \/ nbatch = 1

Bypass(trans, x, enc_out, enc_attn_mask) ==
    IF trans.num_layers_dec = 0
    THEN [x |-> x, bypass |-> <<enc_out, enc_attn_mask>>]
    ELSE x

----------------------------------------------------------------------------
(* ResidualLayerWrapper around attention and feed-forward *)

\* wrapper(inp, mask, kv_inp / kv): preprocess the query, call the wrapped
\* attention, post-process with the original input.  The query of the
\* wrapped call is always the preprocessed input, so the result keeps the
\* input once, with the query's weight columns
WrapAttn(attn, x, attn_mask, kv_inp, kv) ==
    LET pre == Tensor([i \in 1..Len(x) |-> Preprocess(attn.name, x[i])])
        out == Attend(attn, pre, attn_mask, kv_inp, kv)
    IN  Tensor([i \in 1..Len(x) |->
            [res |-> attn.name, x |-> x[i], qW |-> out[i].q.W, kv |-> out[i].kv]])

\* wrapper(inp) around the position-wise feed-forward layer
WrapFFN(ffn, x) == Tensor([i \in 1..Len(x) |-> [res |-> ffn.name, x |-> x[i]]])

OutNorm(trans, x) ==
    IF trans.normalize_out THEN Tensor([i \in 1..Len(x) |-> [dec_out_norm |-> x[i]]]) ELSE x

----------------------------------------------------------------------------
(* Transformer.decode: the batch path *)

\* the decoder layers `layer`.. applied to all time-steps of one sequence
RECURSIVE DecoderLayers(_, _, _, _, _, _)
DecoderLayers(trans, x, dec_attn_mask, enc_out_b, enc_mask_b, layer) ==
    IF layer > trans.num_layers_dec THEN x
    ELSE LET a == WrapAttn(trans.dec_attn[layer], x, dec_attn_mask, None, None)
             c == WrapAttn(trans.dec_enc_attn[layer], a, <<enc_mask_b>>,
                           Some(enc_out_b), None)
             f == WrapFFN(trans.dec_ffn[layer], c)
         IN  DecoderLayers(trans, f, dec_attn_mask, enc_out_b, enc_mask_b, layer + 1)

\* the offset the batch path passes to _add_timing_signal; `draw` is what
\* tf.random_uniform returns when dst_rand_offset is set
BatchOffset(trans, draw) ==
    IF trans.dst_rand_offset THEN Random(draw) ELSE Number(0)

\* pad one zero embedding in front, drop the last time-step
ShiftRight(emb) == Tensor([t \in 1..Len(emb) |-> IF t = 1 THEN ZeroEmb ELSE emb[t - 1]])

TransformerDecode(trans, out, out_reverse, enc_out, enc_attn_mask, draw) ==
    LET emb_out == Tensor([b \in 1..Len(out) |->
                      ShiftRight(Tensor([t \in 1..Len(out[b]) |-> EmbOut(trans, out[b][t])]))])
        dec_attn_mask == MakeDecAttnMask(Len(out[1]))
        dec_inp == AddTimingSignal(emb_out, trans.emb_size,
                                   BatchOffset(trans, draw), Some(out_reverse))
    IN  Tensor([b \in 1..Len(out) |->
            OutNorm(trans,
                DecoderLayers(trans,
                    Tensor([t \in 1..Len(dec_inp[b]) |->
                        Bypass(trans, dec_inp[b][t], enc_out, enc_attn_mask)]),
                    dec_attn_mask, enc_out[b], enc_attn_mask[b], 1))])

----------------------------------------------------------------------------
(* Model *)

\* Model.__init__(name, inp_voc, out_voc, **hp): python itself rejects extra
\* positional arguments; every keyword is forwarded to Transformer
ModelInit(a) ==
    LET trans == Transformer([a EXCEPT !.n_args = 0])
        dwwt  == "dwwt" \in a.kwargs
    IN  IF a.n_args > 0
        THEN [ok |-> FALSE, error |-> "TypeError", transformer |-> None, logits |-> None]
        ELSE IF ~trans.ok
        THEN [ok |-> FALSE, error |-> trans.error, transformer |-> None, logits |-> None]
        ELSE [ok |-> TRUE, error |-> "none", transformer |-> Some(trans),
              logits |-> Some(
                 IF dwwt
                 THEN [tied |-> TRUE, rows |-> trans.emb_out[1].cols,
                       cols |-> trans.emb_out[1].rows]
                 ELSE [tied |-> FALSE, rows |-> trans.hid_size, cols |-> a.out_voc])]

GrowCacheOverwrite(cache, next) == <<next>>

\* tf.concat([cache, next], axis=1): the cache grown by one time-step
GrowCache(cache, next) == Append(cache, next)

\* the causal mask row Model.decode builds: the last row of the mask of the
\* running output padded by one
StepMask(out_seq_b) == <<Last(MakeDecAttnMask(Len(out_seq_b) + 1))>>

CrossAttendSelfCache(trans, s, layer, b, a) ==
    WrapAttn(trans.dec_enc_attn[layer], a, <<s.enc_attn_mask[b]>>,
             None, Some(s.dec_dec_kv[layer][b]))

\* cross-attention of the newest time-step: keys and values are the cache
\* Model.encode computed for this layer
CrossAttend(trans, s, layer, b, a) ==
    WrapAttn(trans.dec_enc_attn[layer], a, <<s.enc_attn_mask[b]>>,
             None, Some(s.dec_enc_kv[layer][b]))

\* the decoder layers `layer`.. applied to the newest time-step x of batch
\* element b: the new read-out input, the grown self-attention caches and
\* the grown activation caches of these layers
RECURSIVE StepLayers(_, _, _, _, _, _)
StepLayers(trans, s, b, x, dec_attn_mask, layer) ==
    IF layer > trans.num_layers_dec
    THEN [x |-> x, kv |-> <<>>, act |-> <<>>]
    ELSE LET attn == trans.dec_attn[layer]
             next_dec_kv == Apply(attn.kv_conv, Preprocess(attn.name, x))
             new_kv == GrowCache(s.dec_dec_kv[layer][b], next_dec_kv)
             a == WrapAttn(attn, <<x>>, dec_attn_mask, None, Some(new_kv))
             c == CrossAttend(trans, s, layer, b, a)
             f == WrapFFN(trans.dec_ffn[layer], c)
             rest == StepLayers(trans, s, b, f[1], dec_attn_mask, layer + 1)
         IN  [x   |-> rest.x,
              kv  |-> <<new_kv>> \o rest.kv,
              act |-> <<GrowCache(s.dec_layers[layer][b], f[1])>> \o rest.act]

\* the running output after appending `words` (None: unchanged)
NewOutSeq(s, words) ==
    IF words = None THEN s.out_seq
    ELSE Tensor([b \in 1..Len(s.out_seq) |-> Append(s.out_seq[b], words[1][b])])

StepEmbUnscaled(trans, words, b) ==
    IF words = None THEN ZeroEmb
    ELSE [word |-> words[1][b], scaled |-> FALSE, zero |-> FALSE]

\* the embedding of the step: zeros on the call without words
StepEmb(trans, words, b) ==
    IF words = None THEN ZeroEmb ELSE EmbOut(trans, words[1][b])

\* the offset of the returned state
NextOffset(offset) == Tensor([b \in 1..Len(offset) |-> offset[b] + 1])

\* whether the step's tensor operations succeed: the bypass squeeze, and the
\* mask bias being addable to the [1 * n_kv] attention logits
DecodeOk(trans, s, words) ==
    LET out_seq == NewOutSeq(s, words)
    IN  /\ BypassOk(trans, Len(out_seq))
        /\ \A layer \in 1..trans.num_layers_dec :
              Broadcastable(StepMask(out_seq[1]), 1, Len(s.dec_dec_kv[layer][1]) + 1)

ReadOutOverHistory(trans, s, b, x) ==
    [rdo |-> Last(OutNorm(trans, <<x>>)), over |-> s.emb[b]]

\* rdo = dec_inp_t[:, -1] after the optional output normalisation: computed
\* from the newest time-step alone
ReadOut(trans, s, b, x) == Last(OutNorm(trans, <<x>>))

\* dropout_scope(is_train) / is_dropout_enabled(): dropout is on exactly in
\* training mode
DropoutEnabled(is_train) == is_train

ResDropoutAlways(x, enabled, noise) == [dropout |-> noise, x |-> x]

\* if is_dropout_enabled(): tf.nn.dropout(dec_inp_t, 1.0 - trans.res_dropout);
\* noise stands for the mask the random source drew
ResDropout(x, enabled, noise) ==
    IF enabled THEN [dropout |-> noise, x |-> x] ELSE x

\* Model.decode(dec_state, words, is_train): the next DecState
ModelDecodeIn(trans, s, words, is_train, noise) ==
    LET nb      == Len(s.out_seq)
        out_seq == NewOutSeq(s, words)
        emb_out == Tensor([b \in 1..nb |-> <<StepEmb(trans, words, b)>>])
        timed   == AddTimingSignal(emb_out, trans.emb_size, PerBatch(s.offset), None)
        dec_inp_t == Tensor([b \in 1..nb |->
                        Bypass(trans,
                               ResDropout(timed[b][1], DropoutEnabled(is_train), noise),
                               s.enc_out, s.enc_attn_mask)])
        step    == Tensor([b \in 1..nb |->
                      StepLayers(trans, s, b, dec_inp_t[b], StepMask(out_seq[b]), 1)])
    IN  [enc_out       |-> s.enc_out,
         enc_attn_mask |-> s.enc_attn_mask,
         attnP         |-> s.attnP,
         rdo           |-> Tensor([b \in 1..nb |-> ReadOut(trans, s, b, step[b].x)]),
         out_seq       |-> out_seq,
         offset        |-> NextOffset(s.offset),
         emb           |-> Tensor([b \in 1..nb |-> GrowCache(s.emb[b], dec_inp_t[b])]),
         dec_layers    |-> Tensor([layer \in 1..trans.num_layers_dec |->
                              Tensor([b \in 1..nb |-> step[b].act[layer]])]),
         dec_enc_kv    |-> s.dec_enc_kv,
         dec_dec_kv    |-> Tensor([layer \in 1..trans.num_layers_dec |->
                              Tensor([b \in 1..nb |-> step[b].kv[layer]])])]

\* Model.decode(dec_state, words) with is_train left at its default, False
ModelDecode(trans, s, words) == ModelDecodeIn(trans, s, words, FALSE, 0)

\* the DecState Model.encode builds before its initial decode; rdraw is the
\* per-sequence draw of tf.random_uniform used when dst_rand_offset is set
EncodeState(trans, inp, inp_len, rdraw) ==
    LET nb  == Len(inp)
        enc == TransformerEncode(inp, inp_len)
    IN  [enc_out       |-> enc.enc_out,
         enc_attn_mask |-> enc.enc_attn_mask,
         attnP         |-> Tensor([b \in 1..nb |-> Tensor([j \in 1..Len(inp[b]) |-> <<1, inp_len[b]>>])]),
         rdo           |-> Tensor([b \in 1..nb |-> [zeros |-> trans.hid_size]]),
         out_seq       |-> Tensor([b \in 1..nb |-> <<>>]),
         offset        |-> Tensor([b \in 1..nb |->
                              IF trans.dst_rand_offset THEN 0 + rdraw[b] ELSE 0]),
         emb           |-> Tensor([b \in 1..nb |-> <<>>]),
         dec_layers    |-> Tensor([layer \in 1..trans.num_layers_dec |->
                              Tensor([b \in 1..nb |-> <<>>])]),
         dec_enc_kv    |-> Tensor([layer \in 1..trans.num_layers_dec |->
                              Tensor([b \in 1..nb |->
                                 Tensor([j \in 1..Len(inp[b]) |->
                                    Apply(trans.dec_enc_attn[layer].kv_conv,
                                          enc.enc_out[b][j])])])]),
         dec_dec_kv    |-> Tensor([layer \in 1..trans.num_layers_dec |->
                              Tensor([b \in 1..nb |-> <<>>])])]

\* Model.encode(batch): the initial state after one decode without words
ModelEncode(trans, inp, inp_len, rdraw) ==
    ModelDecode(trans, EncodeState(trans, inp, inp_len, rdraw), None)

\* Model.get_logits: the logits projection applied to the read-out
GetLogits(rdo) == Tensor([b \in 1..Len(rdo) |-> [dense |-> "logits", x |-> rdo[b]]])

\* Model.symbolic_score(inp, out): logits of the batch path; out_reverse is
\* all zeros
SymbolicScoreOf(trans, inp, inp_len, out, draw) ==
    LET enc == TransformerEncode(inp, inp_len)
        rdo == TransformerDecode(trans, out, Tensor([b \in 1..Len(inp) |-> 0]),
                                 enc.enc_out, enc.enc_attn_mask, draw)
    IN  Tensor([b \in 1..Len(out) |-> GetLogits(rdo[b])])

----------------------------------------------------------------------------
(* The incremental decode state machine *)

InpIds == {5}

OutIds == {1, 2}

\* values tf.random_uniform(minval=-BIG_LEN, maxval=BIG_LEN) may return
OffsetSamples == {0 - BIG_LEN, BIG_LEN - 1}

\* the hyper-parameters the decode state machine is explored with: the
\* defaults ("plain"), every optional feature but the random offset
\* ("dressed"), and every optional feature ("random")
Styles == {"plain", "dressed", "random"}

Config(num_layers, style) ==
    [n_args |-> 0, kwargs |-> {}, emb_size |-> 0, hid_size |-> 4,
     key_size |-> 1, value_size |-> 1, num_heads |-> 1,
     num_layers |-> num_layers, share_emb |-> FALSE,
     rescale_emb |-> style /= "plain", dst_rand_offset |-> style = "random",
     normalize_out |-> style /= "plain",
     multihead_attn_format |-> IF style = "plain" THEN "v1" ELSE "v2",
     inp_voc |-> 9, out_voc |-> 3]

DecodeConfigs == {Config(n, st) : n \in 0..MaxLayers, st \in Styles}

Idle == [op |-> "none"]

trans == model.transformer[1]

Init ==
    /\ model \in {ModelInit(a) : a \in DecodeConfigs}
    /\ model.ok
    /\ batch = None
    /\ pool = {}
    /\ score = None
    /\ raised = "none"
    /\ ctor = Idle
    /\ run = Idle
    /\ sig = Idle

\* one draw per index 1..n: the same sample everywhere, or alternating
Draws(n) ==
    {[i \in 1..n |-> s] : s \in OffsetSamples}
    \cup {[i \in 1..n |-> IF i % 2 = 1 THEN 0 - BIG_LEN ELSE BIG_LEN - 1]}

\* the per-sequence draws Model.encode may see
EncodeDraws(nb) ==
    IF trans.dst_rand_offset THEN Draws(nb) ELSE {[b \in 1..nb |-> 0]}

\* the per-time-step draws Transformer.decode may see
DecodeDraws(nout) ==
    IF trans.dst_rand_offset THEN Draws(nout) ELSE {[t \in 1..nout |-> 0]}

\* the lengths explored for nb sequences padded to ninp ids: all full, or
\* falling with the batch index
LenChoices(nb, ninp) ==
    {[b \in 1..nb |-> ninp], [b \in 1..nb |-> Max(1, ninp - b)]}

\* the words a decode call may be given: None or one id per sequence
WordChoices(nb) ==
    {None, Some([b \in 1..nb |-> 1]), Some([b \in 1..nb |-> 1 + (b % 2)])}

\* Model.encode on a batch of nb sequences padded to ninp ids
Encode ==
    /\ batch = None
    /\ \E nb \in 1..MaxBatch, ninp \in 1..MaxInpLen :
       \E inp \in [1..nb -> [1..ninp -> InpIds]], inp_len \in LenChoices(nb, ninp) :
       \E rdraw \in EncodeDraws(nb) :
          LET s0 == EncodeState(trans, inp, inp_len, rdraw)
          IN  IF DecodeOk(trans, s0, None)
              THEN /\ batch' = Some([inp |-> inp, inp_len |-> inp_len])
                   /\ pool' = {[state |-> ModelEncode(trans, inp, inp_len, rdraw), calls |-> 1]}
                   /\ raised' = "none"
              ELSE /\ raised' = "InvalidArgumentError"
                   /\ UNCHANGED <<batch, pool>>
    /\ UNCHANGED <<model, score, ctor, run, sig>>

DecodeIntoInPlace(node, words, kept) ==
    IF DecodeOk(trans, node.state, words)
    THEN /\ pool' = (kept \ {node})
                     \cup {[state |-> ModelDecode(trans, node.state, words),
                            calls |-> node.calls + 1]}
         /\ raised' = "none"
    ELSE /\ raised' = "InvalidArgumentError"
         /\ UNCHANGED pool

\* the outcome of Model.decode(node.state, words): the pool with the new
\* state added, or the error raised
DecodeInto(node, words, kept) ==
    IF DecodeOk(trans, node.state, words)
    THEN /\ pool' = kept \cup {[state |-> ModelDecode(trans, node.state, words),
                                calls |-> node.calls + 1]}
         /\ raised' = "none"
    ELSE /\ raised' = "InvalidArgumentError"
         /\ UNCHANGED pool

\* Model.decode on any state the caller holds (beam search: the caller
\* keeps the state it decoded from)
Decode ==
    /\ Cardinality(pool) < MaxPool
    /\ \E node \in pool :
       \E words \in WordChoices(Len(node.state.out_seq)) :
          DecodeInto(node, words, pool)
    /\ UNCHANGED <<model, batch, score, ctor, run, sig>>

Next == Encode \/ Decode

Spec == Init /\ [][Next]_vars

----------------------------------------------------------------------------
(* Greedy decoding against the batch path *)

\* Model.decode on the state the caller holds, which the caller then drops
DecodeNext ==
    /\ \E node \in pool :
          /\ node.calls < MaxPool
          /\ \E words \in WordChoices(Len(node.state.out_seq)) :
                DecodeInto(node, words, {})
    /\ score' = None
    /\ UNCHANGED <<model, batch, ctor, run, sig>>

\* Model.symbolic_score on the encoded input and a target that extends the
\* running output of the held state by one id: the logits at the final
\* position of the batch path
SymbolicScore ==
    /\ batch /= None
    /\ score = None
    /\ BypassOk(trans, Len(batch[1].inp))
    /\ \E node \in pool :
       \E w \in OutIds :
          LET out == Tensor([b \in 1..Len(node.state.out_seq) |->
                         Append(node.state.out_seq[b], w)])
          IN  \E draw \in DecodeDraws(Len(out[1])) :
                 score' = Some([prefix |-> node.state.out_seq,
                                draw   |-> draw,
                                logits |-> LET l == SymbolicScoreOf(trans, batch[1].inp,
                                                        batch[1].inp_len, out, draw)
                                           IN  Tensor([b \in 1..Len(out) |-> Last(l[b])])])
    /\ raised' = "none"
    /\ UNCHANGED <<model, batch, pool, ctor, run, sig>>

NextScore == Encode \/ DecodeNext \/ SymbolicScore

SpecScore == Init /\ [][NextScore]_vars

----------------------------------------------------------------------------
(* Claims about the decode state machine *)

Layers == 1..trans.num_layers_dec

Seqs(s) == 1..Len(s.out_seq)

\* the state Model.encode built before its initial decode call
EncodedFrom ==
    EncodeState(trans, batch[1].inp, batch[1].inp_len,
                [b \in 1..Len(batch[1].inp) |-> 0])

\* C1: a state produced by k Model.decode calls (the one inside Model.encode
\* included) has k time-steps in every per-layer self-attention cache and
\* as many time-steps as the encoder input is long in every per-layer
\* cross-attention cache; before the first call the self-attention caches
\* are empty
CacheGrowth ==
    /\ \A node \in pool : \A layer \in Layers : \A b \in Seqs(node.state) :
          /\ Len(node.state.dec_dec_kv[layer][b]) = node.calls
          /\ Len(node.state.dec_enc_kv[layer][b]) = Len(batch[1].inp[b])
    /\ batch /= None =>
          \A layer \in Layers : \A b \in Seqs(EncodedFrom) :
             Len(EncodedFrom.dec_dec_kv[layer][b]) = 0

CacheGrowthWitness ==
    \E node \in pool :
       /\ node.calls >= 3
       /\ trans.num_layers_dec >= 2
       /\ Len(batch[1].inp[1]) >= 2
       /\ Len(node.state.dec_dec_kv[2][1]) = 3

\* the decoder input of a time-step as _add_timing_signal returned it
TimedInput(e) == IF trans.num_layers_dec = 0 THEN e.x ELSE e

IsPrefix(p, q) == Len(p) <= Len(q) /\ SubSeq(q, 1, Len(p)) = p

\* `next` is `prev` advanced by one decode step: offset plus 1, one more
\* time-step in every cache, on top of the caches of prev, and the new
\* time-step carries the signal of the single position prev.offset
StepOf(prev, next) ==
    /\ Len(next.offset) = Len(prev.offset)
    /\ \A b \in Seqs(prev) :
          /\ next.offset[b] = prev.offset[b] + 1
          /\ Len(next.emb[b]) = Len(prev.emb[b]) + 1
          /\ IsPrefix(prev.emb[b], next.emb[b])
          /\ TimedInput(Last(next.emb[b])).signal
                = Signal(prev.offset[b], trans.emb_size)
          /\ IsPrefix(prev.out_seq[b], next.out_seq[b])
          /\ \A layer \in Layers :
                /\ Len(next.dec_dec_kv[layer][b]) = Len(prev.dec_dec_kv[layer][b]) + 1
                /\ IsPrefix(prev.dec_dec_kv[layer][b], next.dec_dec_kv[layer][b])
                /\ Len(next.dec_layers[layer][b]) = Len(prev.dec_layers[layer][b]) + 1
                /\ IsPrefix(prev.dec_layers[layer][b], next.dec_layers[layer][b])

\* C4: a decode call leaves every state the caller holds as it was and adds
\* a state that is one step past the state it was given: offset plus 1,
\* cache lengths plus 1, signal computed for the one position at the offset
DecodeIsFunctional ==
    [][pool /= {} =>
          /\ \A node \in pool : node \in pool'
          /\ \A new \in pool' \ pool :
                \E node \in pool :
                   /\ new.calls = node.calls + 1
                   /\ StepOf(node.state, new.state)]_vars

\* one state decoded twice with different words: both results are held
\* beside it and each is one step past it
DecodeIsFunctionalWitness ==
    \E node \in pool, x \in pool, y \in pool :
       /\ trans.num_layers_dec >= 1
       /\ x /= y
       /\ StepOf(node.state, x.state)
       /\ StepOf(node.state, y.state)
       /\ Len(x.state.out_seq[1]) = Len(node.state.out_seq[1]) + 1
       /\ Len(y.state.out_seq[1]) = Len(node.state.out_seq[1]) + 1
       /\ Last(x.state.out_seq[1]) /= Last(y.state.out_seq[1])

\* what cross-attention of layer `layer` reads for sequence b when its keys
\* and values are the cache of state s0
FrozenRead(s0, layer, b) ==
    LET attn == trans.dec_enc_attn[layer]
        vis  == SetToSeq(Visible(<<s0.enc_attn_mask[b]>>, 1, Len(s0.dec_enc_kv[layer][b])))
    IN  Tensor([n \in 1..Len(vis) |->
            <<vis[n], KeyValue(s0.dec_enc_kv[layer][b][vis[n] + 1], 0,
                               attn.key_depth, attn.value_depth)>>])

\* C5: every state reachable from encode carries the encoder output, the
\* padding mask, attnP and the cross-attention caches encode computed, and
\* the cross-attention of its last step read exactly those caches
CrossCacheFrozen ==
    \A node \in pool :
       /\ node.state.enc_out = EncodedFrom.enc_out
       /\ node.state.enc_attn_mask = EncodedFrom.enc_attn_mask
       /\ node.state.attnP = EncodedFrom.attnP
       /\ node.state.dec_enc_kv = EncodedFrom.dec_enc_kv
       /\ \A layer \in Layers : \A b \in Seqs(node.state) :
             Last(node.state.dec_layers[layer][b]).x.kv
                = FrozenRead(EncodedFrom, layer, b)

CrossCacheFrozenWitness ==
    \E node \in pool :
       /\ node.calls >= 3
       /\ trans.num_layers_dec >= 2
       /\ Len(batch[1].inp) >= 2
       /\ Len(node.state.dec_enc_kv[2][2]) >= 2
       /\ Len(Last(node.state.dec_layers[2][2]).x.kv) = 1

\* the key positions the self-attention of the last step of layer `layer`
\* gave weight to
AttendedPositions(s, layer, b) ==
    LET a == Last(s.dec_layers[layer][b]).x.x
    IN  {a.kv[n][1] : n \in 1..Len(a.kv)}

\* C6: the decoder mask of any length lets query i see key j exactly when
\* j <= i, and the one query of a decode step, at position p, attends
\* exactly the cached positions 0..p, for every sequence of the batch
CausalMask ==
    \A node \in pool :
       /\ \A n \in 1..node.calls : \A i \in 1..n : \A j \in 1..n :
             MakeDecAttnMask(n)[i][j] = (IF j <= i THEN 1 ELSE 0)
       /\ \A layer \in Layers : \A b \in Seqs(node.state) :
             AttendedPositions(node.state, layer, b) = 0..(node.calls - 1)

CausalMaskWitness ==
    \E node \in pool :
       /\ node.calls >= 3
       /\ trans.num_layers_dec >= 1
       /\ Len(batch[1].inp) >= 2
       /\ AttendedPositions(node.state, 1, 2) = {0, 1, 2}
       /\ MakeDecAttnMask(3)[2] = <<1, 1, 0>>

----------------------------------------------------------------------------
(* Claims about greedy decoding against the batch path *)

\* every decode call after the one inside encode was given words
TokenByToken(node) == node.calls = Len(node.state.out_seq[1]) + 1

\* the held state's logits equal the batch path's logits at the final
\* position of the target prefix that ends at the state's step
SameLogits ==
    \A node \in pool :
       (TokenByToken(node) /\ node.state.out_seq = score[1].prefix)
          => GetLogits(node.state.rdo) = score[1].logits

MaskAligned ==
    \A node \in pool : \A layer \in Layers : \A b \in Seqs(node.state) :
       /\ Len(node.state.out_seq[b]) + 1 = Len(node.state.dec_dec_kv[layer][b])
       /\ Len(StepMask(node.state.out_seq[b])[1])
             = Len(node.state.dec_dec_kv[layer][b])

----------------------------------------------------------------------------
(* Two runs of encode and the same decode calls, side by side *)

TwinLayers == {0, 1}

InitTwin ==
    /\ model \in {ModelInit(Config(n, st)) : n \in TwinLayers, st \in Styles}
    /\ model.ok
    /\ batch = None
    /\ pool = {}
    /\ score = None
    /\ raised = "none"
    /\ ctor = Idle
    /\ run = Idle
    /\ sig = Idle

\* the state Model.encode(batch, is_train) returns in run r, whose random
\* source drew rdraw for the offsets and whose dropout noise is r
EncodeRun(r, inp, inp_len, rdraw, is_train) ==
    [state |-> ModelDecodeIn(trans, EncodeState(trans, inp, inp_len, rdraw),
                             None, is_train, r),
     calls |-> 1, run |-> r, is_train |-> is_train, replaced |-> "none"]

\* Model.encode on the same batch in both runs
EncodeTwice ==
    /\ batch = None
    /\ \E nb \in 1..MaxBatch, is_train \in BOOLEAN :
       \E rdraw1 \in EncodeDraws(nb), rdraw2 \in EncodeDraws(nb) :
          LET inp     == [b \in 1..nb |-> <<5>>]
              inp_len == [b \in 1..nb |-> 1]
          IN  /\ rdraw1[1] <= rdraw2[1]
              /\ IF BypassOk(trans, nb)
                 THEN /\ batch' = Some([inp |-> inp, inp_len |-> inp_len])
                      /\ pool' = {EncodeRun(1, inp, inp_len, rdraw1, is_train),
                                  EncodeRun(2, inp, inp_len, rdraw2, is_train)}
                      /\ raised' = "none"
                 ELSE /\ raised' = "InvalidArgumentError"
                      /\ UNCHANGED <<batch, pool>>
    /\ UNCHANGED <<model, score, ctor, run, sig>>

\* Model.decode with the same words in both runs
DecodeTwice ==
    /\ pool /= {}
    /\ \A n \in pool : n.calls < MaxPool
    /\ \E words \in WordChoices(Len(batch[1].inp)) :
          IF \A n \in pool : DecodeOk(trans, n.state, words)
          THEN /\ pool' = {[n EXCEPT !.state = ModelDecodeIn(trans, n.state, words,
                                                             n.is_train, n.run),
                                     !.calls = @ + 1] : n \in pool}
               /\ raised' = "none"
          ELSE /\ raised' = "InvalidArgumentError"
               /\ UNCHANGED pool
    /\ UNCHANGED <<model, batch, score, ctor, run, sig>>

\* a DecState equal to s except in the named fields: the history caches
\* (emb and dec_layers) emptied, or the encoder output zeroed
Replaced(s, fields) ==
    IF fields = "history"
    THEN [s EXCEPT !.emb = Tensor([b \in 1..Len(s.emb) |-> <<>>]),
                   !.dec_layers = Tensor([layer \in 1..Len(s.dec_layers) |->
                                     Tensor([b \in 1..Len(s.emb) |-> <<>>])])]
    ELSE [s EXCEPT !.enc_out = Tensor([b \in 1..Len(s.enc_out) |->
                                  Tensor([j \in 1..Len(s.enc_out[b]) |->
                                     [enc |-> <<>>, len |-> 0, at |-> j]])])]

\* the caller of run 2 rebuilds its DecState with some fields replaced
\* before it goes on decoding
ReplaceFields ==
    /\ \E n \in pool :
          /\ n.run = 2
          /\ n.calls = 1
          /\ n.replaced = "none"
          /\ ~n.is_train
          /\ \E fields \in {"history", "enc_out"} :
                pool' = (pool \ {n})
                        \cup {[n EXCEPT !.state = Replaced(n.state, fields),
                                        !.replaced = fields]}
    /\ UNCHANGED <<model, batch, score, raised, ctor, run, sig>>

NextTwin == EncodeTwice \/ DecodeTwice \/ ReplaceFields

SpecTwin == InitTwin /\ [][NextTwin]_vars

\* C13 as stated: in inference mode the two runs hold identical DecStates
\* after the same calls, for every model configuration
InferenceDeterminism ==
    \A n1 \in pool : \A n2 \in pool :
       (~n1.is_train /\ n1.replaced = "none" /\ n2.replaced = "none")
          => n1.state = n2.state

\* C13 as amended: in inference mode no dropout is applied, and for models
\* built without dst_rand_offset the two runs hold identical DecStates
\* after the same calls
InferenceDeterminismFixedOffset ==
    \A n1 \in pool : \A n2 \in pool :
       (/\ ~n1.is_train
        /\ ~trans.dst_rand_offset
        /\ n1.replaced = "none"
        /\ n2.replaced = "none")
          => n1.state = n2.state

InferenceDeterminismWitness ==
    \E n1 \in pool : \E n2 \in pool :
       /\ n1.run = 1
       /\ n2.run = 2
       /\ ~n1.is_train
       /\ ~trans.dst_rand_offset
       /\ trans.num_layers_dec >= 1
       /\ n1.replaced = "none"
       /\ n2.replaced = "none"
       /\ n1.calls >= 3
       /\ Len(n1.state.out_seq[1]) >= 2
       /\ n1.state = n2.state

\* the fields of the next state the step computes
Computed(s) ==
    [rdo |-> s.rdo, offset |-> s.offset, out_seq |-> s.out_seq,
     dec_dec_kv |-> s.dec_dec_kv]

\* the two runs decoded at least once since encode, in inference mode and
\* from the same offsets
SteppedAlike(n1, n2) ==
    /\ n1.run = 1
    /\ n2.run = 2
    /\ ~n1.is_train
    /\ n1.calls >= 2
    /\ n1.state.offset = n2.state.offset

\* C16 as stated: the step reads only the token, the offset, dec_dec_kv,
\* dec_enc_kv and the encoder mask, so states that differ in emb and
\* dec_layers, or in any other field outside that list, give the same
\* read-out, offset, running output and self-attention caches
StepReadsOnlyCaches ==
    \A n1 \in pool : \A n2 \in pool :
       SteppedAlike(n1, n2) => Computed(n1.state) = Computed(n2.state)

\* C16 as amended: states that differ only in emb and dec_layers give the
\* same read-out, offset, running output and self-attention caches; with
\* at least one decoder layer the same holds for states that differ in the
\* encoder output
HistoryUnread ==
    \A n1 \in pool : \A n2 \in pool :
       (/\ SteppedAlike(n1, n2)
        /\ (n2.replaced \in {"none", "history"} \/ trans.num_layers_dec > 0))
          => Computed(n1.state) = Computed(n2.state)

HistoryUnreadWitness ==
    \E n1 \in pool : \E n2 \in pool :
       /\ SteppedAlike(n1, n2)
       /\ n2.replaced = "history"
       /\ trans.num_layers_dec >= 1
       /\ n1.calls >= 3
       /\ Len(n1.state.out_seq[1]) >= 2
       /\ Len(n1.state.emb[1]) > Len(n2.state.emb[1])
       /\ Len(n1.state.dec_layers[1][1]) > Len(n2.state.dec_layers[1][1])
       /\ Computed(n1.state) = Computed(n2.state)

----------------------------------------------------------------------------
(* Position signal and mask as functions of their inputs *)

\* widths with at least two timescales, even and odd
HidSizes == 4..7

InitSignal ==
    /\ model = Idle
    /\ batch = None
    /\ pool = {}
    /\ score = None
    /\ raised = "none"
    /\ ctor = Idle
    /\ run = Idle
    /\ sig = Idle

\* the offsets a caller may pass for nb sequences of `length` time-steps
OffsetChoices(nb, length) ==
    {Number(k) : k \in 0..(MaxLen - 1)}
    \cup {PerBatch([b \in 1..nb |-> k + b - 1]) : k \in 0..(MaxLen - 1)}
    \cup {Random(d) : d \in Draws(length)}

ReverseChoices(nb) ==
    {None, Some([b \in 1..nb |-> 0]), Some([b \in 1..nb |-> b % 2])}

\* one evaluation of Transformer._add_timing_signal
AddTimingSignalCall ==
    /\ sig = Idle
    /\ \E nb \in 1..MaxBatch, length \in 1..MaxLen, hid_size \in HidSizes :
       \E offset \in OffsetChoices(nb, length), inp_reverse \in ReverseChoices(nb) :
          sig' = [op |-> "add_timing_signal", nb |-> nb, length |-> length,
                  hid_size |-> hid_size, offset |-> offset,
                  inp_reverse |-> inp_reverse,
                  out |-> AddTimingSignal(
                             [b \in 1..nb |-> [t \in 1..length |-> ZeroEmb]],
                             hid_size, offset, inp_reverse)]
    /\ UNCHANGED <<model, batch, pool, score, raised, ctor, run>>

\* one evaluation of Transformer._make_dec_attn_mask
MakeDecAttnMaskCall ==
    /\ sig = Idle
    /\ \E length \in 0..MaxLen :
          sig' = [op |-> "make_dec_attn_mask", length |-> length,
                  out |-> MakeDecAttnMask(length)]
    /\ UNCHANGED <<model, batch, pool, score, raised, ctor, run>>

NextSignal == AddTimingSignalCall \/ MakeDecAttnMaskCall

SpecSignal == InitSignal /\ [][NextSignal]_vars

\* the signal added to a single time-step at offset k
SingleStepSignal(hid_size, offset) ==
    AddTimingSignal(<<<<ZeroEmb>>>>, hid_size, offset, None)[1][1].signal

\* C3: for a length-N input at offset 0, the position index and the signal
\* of row k equal those of a length-1 input at offset k, for every k < N
PositionAgreement ==
    (/\ sig.op = "add_timing_signal"
     /\ sig.offset.kind = "number"
     /\ sig.offset.val = 0
     /\ sig.inp_reverse = None)
    => \A b \in 1..sig.nb : \A k \in 0..(sig.length - 1) :
          /\ PositionIndex(sig.offset, None, b, k + 1) = k
          /\ PositionIndex(Number(k), None, 1, 1) = k
          /\ PositionIndex(PerBatch(<<k>>), None, 1, 1) = k
          /\ sig.out[b][k + 1].signal = SingleStepSignal(sig.hid_size, Number(k))
          /\ sig.out[b][k + 1].signal = SingleStepSignal(sig.hid_size, PerBatch(<<k>>))

PositionAgreementWitness ==
    /\ sig.op = "add_timing_signal"
    /\ sig.offset.kind = "number"
    /\ sig.offset.val = 0
    /\ sig.inp_reverse = None
    /\ sig.length >= 3
    /\ sig.hid_size = 5
    /\ sig.out[1][3].signal = <<<<"sin", 2, 0>>, <<"sin", 2, 1>>, <<"cos", 2, 0>>,
                                <<"cos", 2, 1>>, <<"pad", 0, 0>>>>
    /\ SingleStepSignal(5, PerBatch(<<2>>)) = sig.out[1][3].signal

\* the position index the call gave time-step t of sequence b, read off the
\* first sine of its signal
PositionOf(b, t) == sig.out[b][t].signal[1][2]

\* C12: when _add_timing_signal is called as Transformer.decode calls it
\* with dst_rand_offset on (offset 'random', no reversal), one offset is
\* added to all time-steps of a sequence: consecutive positions differ by 1
RandomOffsetPerSequence ==
    (/\ sig.op = "add_timing_signal"
     /\ sig.offset.kind = "random"
     /\ sig.inp_reverse = None)
    => \A b \in 1..sig.nb : \A t \in 1..(sig.length - 1) :
          PositionOf(b, t + 1) - PositionOf(b, t) = 1

----------------------------------------------------------------------------
(* MultiHeadAttn called in its three ways on the same input *)

Depths == 1..3

\* the masks the calls are given: causal, or every key visible
MaskChoices(n) == {MakeDecAttnMask(n), <<[j \in 1..n |-> 1]>>}

\* attn(x, mask), attn(x, mask, kv_inp=x) and attn(x, mask, kv=kv_conv(x))
\* on one layer, with the projections each call splits
AttentionCall ==
    /\ sig = Idle
    /\ \E format \in Formats, key_depth \in Depths, value_depth \in Depths :
       \E n \in 1..MaxLen :
       \E words \in [1..n -> OutIds], attn_mask \in MaskChoices(n) :
          LET attn == MultiHeadAttn(<<"attn", 0>>, key_depth, value_depth, 4, 1, format)
              x    == Tensor([i \in 1..n |-> [word |-> words[i]]])
              comb == Tensor([i \in 1..n |-> Apply(attn.combined_conv, x[i])])
              kv   == Tensor([i \in 1..n |-> Apply(attn.kv_conv, x[i])])
          IN  sig' = [op |-> "attention", format |-> format,
                      key_depth |-> key_depth, value_depth |-> value_depth,
                      n |-> n, attn_mask |-> attn_mask,
                      q_combined |-> Tensor([i \in 1..n |-> Piece(comb[i], 0, key_depth)]),
                      q_query    |-> Tensor([i \in 1..n |-> Apply(attn.query_conv, x[i])]),
                      kv_combined |-> Tensor([i \in 1..n |->
                                         KeyValue(comb[i], key_depth, key_depth, value_depth)]),
                      kv_kv      |-> Tensor([i \in 1..n |->
                                         KeyValue(kv[i], 0, key_depth, value_depth)]),
                      alone      |-> Attend(attn, x, attn_mask, None, None),
                      by_kv_inp  |-> Attend(attn, x, attn_mask, Some(x), None),
                      by_kv      |-> Attend(attn, x, attn_mask, None, Some(kv))]
    /\ UNCHANGED <<model, batch, pool, score, raised, ctor, run>>

NextLayout == AttentionCall

SpecLayout == InitSignal /\ [][NextLayout]_vars

\* C14: in both formats, the combined projection split into
\* [key_depth | key_depth | value_depth] gives the Q of query_conv and the
\* K, V of kv_conv split into [key_depth | value_depth], and attention on
\* query_inp alone equals attention with kv_inp = query_inp and attention
\* with kv = kv_conv(query_inp)
ProjectionLayouts ==
    sig.op = "attention" =>
       /\ sig.q_combined = sig.q_query
       /\ sig.kv_combined = sig.kv_kv
       /\ sig.alone = sig.by_kv_inp
       /\ sig.alone = sig.by_kv

ProjectionLayoutsWitness ==
    /\ sig.op = "attention"
    /\ sig.format = "combined"
    /\ sig.key_depth = 2
    /\ sig.value_depth = 3
    /\ sig.n >= 2
    /\ Len(sig.attn_mask) = sig.n
    /\ Len(sig.alone[2].kv) = 2
    /\ Len(sig.kv_combined[1].vW) = 3
    /\ sig.alone = sig.by_kv

----------------------------------------------------------------------------
(* Constructors *)

MhaArgs ==
    [key_depth : {2, 3}, value_depth : {2, 3}, num_heads : {1, 2},
     format : {"use_kv", "combined", "bogus"}]

CtorArgs ==
    [n_args : {0, 1}, kwargs : {{}, {"dwwt"}, {"bogus"}}, emb_size : {0, 2},
     hid_size : {4}, key_size : {0, 3}, value_size : {0, 3},
     num_heads : {1, 2}, num_layers : {0, 1}, share_emb : BOOLEAN,
     rescale_emb : {FALSE}, dst_rand_offset : {FALSE}, normalize_out : {FALSE},
     multihead_attn_format : {"v1", "v2", "bogus"}, inp_voc : {9}, out_voc : {3}]

InitCtor == InitSignal

\* MultiHeadAttn(...) called directly
NewMultiHeadAttn ==
    /\ ctor = Idle
    /\ \E m \in MhaArgs :
          LET attn == MultiHeadAttn(<<"attn", 0>>, m.key_depth, m.value_depth, 4,
                                    m.num_heads, m.format)
          IN  ctor' = [op |-> "MultiHeadAttn", args |-> m, ok |-> attn.ok,
                       error |-> attn.error, created |-> attn.created,
                       callable |-> IF attn.ok THEN SplitHeadsOk(attn) ELSE FALSE]
    /\ UNCHANGED <<model, batch, pool, score, raised, run, sig>>

\* Transformer(name, inp_voc, out_voc, ...)
NewTransformer ==
    /\ ctor = Idle
    /\ \E a \in CtorArgs :
          LET t == Transformer(a)
          IN  ctor' = [op |-> "Transformer", args |-> a, ok |-> t.ok,
                       error |-> t.error, created |-> t.created]
    /\ UNCHANGED <<model, batch, pool, score, raised, run, sig>>

\* Model(name, inp_voc, out_voc, **hp)
NewModel ==
    /\ ctor = Idle
    /\ \E a \in CtorArgs :
          LET m == ModelInit(a)
          IN  ctor' = [op |-> "Model", args |-> a, ok |-> m.ok,
                       error |-> m.error,
                       created |-> IF m.ok THEN m.transformer[1].created ELSE {},
                       logits |-> m.logits]
    /\ UNCHANGED <<model, batch, pool, score, raised, run, sig>>

NextCtor == NewMultiHeadAttn \/ NewTransformer \/ NewModel

SpecCtor == InitCtor /\ [][NextCtor]_vars

\* whether the head count divides the key and the value depth of the call
HeadsDivide ==
    IF ctor.op = "MultiHeadAttn"
    THEN /\ ctor.args.key_depth % ctor.args.num_heads = 0
         /\ ctor.args.value_depth % ctor.args.num_heads = 0
    ELSE /\ OrElse(ctor.args.key_size, ctor.args.hid_size) % ctor.args.num_heads = 0
         /\ OrElse(ctor.args.value_size, ctor.args.hid_size) % ctor.args.num_heads = 0

\* C7: a MultiHeadAttn or Transformer constructed with a key or value depth
\* the head count does not divide fails, and has created no variable
HeadCountValidated ==
    (ctor.op \in {"MultiHeadAttn", "Transformer"} /\ ~HeadsDivide)
       => (~ctor.ok /\ ctor.created = {})

\* the format names a constructor call may pass
KnownFormats == Formats \cup {"v1", "v2"}

\* C8: a constructor given an attention-format name that is not supported
\* raises
BadFormatRaises ==
    /\ (ctor.op = "MultiHeadAttn" /\ ctor.args.format \notin Formats) => ~ctor.ok
    /\ (ctor.op \in {"Transformer", "Model"}
          /\ ctor.args.multihead_attn_format \notin KnownFormats) => ~ctor.ok

\* C9 as stated: Transformer and Model raise on any argument they do not
\* declare, positional or keyword
UnexpectedArgsRaise ==
    (/\ ctor.op \in {"Transformer", "Model"}
     /\ (ctor.args.n_args > 0 \/ ctor.args.kwargs \ {"dwwt"} /= {}))
    => ~ctor.ok

\* C9 as amended: Transformer and Model raise on a positional argument they
\* do not declare, before anything is created; keywords they do not declare
\* are accepted and change nothing about whether construction succeeds
PositionalArgsRaise ==
    ctor.op \in {"Transformer", "Model"} =>
       /\ ctor.args.n_args > 0 => (~ctor.ok /\ ctor.created = {})
       /\ ctor.args.n_args = 0 => (ctor.ok <=> HeadsDivide)

PositionalArgsRaiseWitness ==
    /\ ctor.op = "Transformer"
    /\ ctor.args.n_args > 0
    /\ ctor.args.kwargs = {"bogus"}
    /\ HeadsDivide
    /\ ~ctor.ok
    /\ ctor.error = "Unexpected positional arguments"

\* C11: for every model configuration the logits projection has hid_size
\* rows and len(out_voc) columns, so get_logits is batch x output vocabulary
LogitsShape ==
    (ctor.op = "Model" /\ ctor.ok) =>
       /\ ctor.logits[1].rows = ctor.args.hid_size
       /\ ctor.logits[1].cols = ctor.args.out_voc

----------------------------------------------------------------------------
(* run_model: checkpoint loading *)

VarNames == {"emb_inp", "emb_out", "logits"}

NamesSubset(curr_var_names, var_names_in_file) ==
    curr_var_names \subseteq var_names_in_file

\* assert curr_var_names == var_names_in_file
NamesMatch(curr_var_names, var_names_in_file) ==
    curr_var_names = var_names_in_file

\* after create_model and np.load: the model's trainable variable names and
\* the names in the weight file, with src_batches batches of input to come
InitRun ==
    /\ model = Idle
    /\ batch = None
    /\ pool = {}
    /\ score = None
    /\ raised = "none"
    /\ ctor = Idle
    /\ sig = Idle
    /\ run \in [op : {"run_model"}, pc : {"loaded"},
                curr_var_names : SUBSET VarNames,
                var_names_in_file : SUBSET VarNames,
                src_batches : 0..MaxSrcBatches,
                assigned : {{}}, translations : {0}, written : {FALSE}]

\* the assert on the two name sets
CheckNames ==
    /\ run.pc = "loaded"
    /\ run' = [run EXCEPT !.pc =
                 IF NamesMatch(run.curr_var_names, run.var_names_in_file)
                 THEN "assign" ELSE "AssertionError"]
    /\ UNCHANGED <<model, batch, pool, score, raised, ctor, sig>>

\* sess.run(assigns): every variable gets w_values[var.name]; a name the
\* file lacks is a KeyError while the assigns are built
AssignWeights ==
    /\ run.pc = "assign"
    /\ run' = IF run.curr_var_names \subseteq run.var_names_in_file
              THEN [run EXCEPT !.pc = "translate",
                               !.assigned = {<<v, <<"w_values", v>>>> :
                                                v \in run.curr_var_names}]
              ELSE [run EXCEPT !.pc = "KeyError"]
    /\ UNCHANGED <<model, batch, pool, score, raised, ctor, sig>>

\* one minibatch translated
TranslateBatch ==
    /\ run.pc = "translate"
    /\ run.translations < run.src_batches
    /\ run' = [run EXCEPT !.translations = @ + 1]
    /\ UNCHANGED <<model, batch, pool, score, raised, ctor, sig>>

\* the translations written to output_path
SaveResults ==
    /\ run.pc = "translate"
    /\ run.translations = run.src_batches
    /\ run' = [run EXCEPT !.pc = "done", !.written = TRUE]
    /\ UNCHANGED <<model, batch, pool, score, raised, ctor, sig>>

NextRun == CheckNames \/ AssignWeights \/ TranslateBatch \/ SaveResults

SpecRun == InitRun /\ [][NextRun]_vars

\* C10: when the model's names and the file's names differ, run_model stops
\* at the check with nothing assigned, translated or written; when they are
\* equal, every model variable is assigned the file's tensor of its own name
CheckpointLoading ==
    /\ run.curr_var_names /= run.var_names_in_file =>
          /\ run.pc \in {"loaded", "AssertionError"}
          /\ run.assigned = {}
          /\ run.translations = 0
          /\ ~run.written
    /\ run.pc \in {"translate", "done"} =>
          /\ run.curr_var_names = run.var_names_in_file
          /\ run.assigned = {<<v, <<"w_values", v>>>> : v \in run.curr_var_names}

CheckpointLoadingWitness ==
    /\ run.pc = "AssertionError"
    /\ run.curr_var_names /= run.var_names_in_file
    /\ run.curr_var_names \subseteq run.var_names_in_file
    /\ run.curr_var_names /= {}
    /\ run.assigned = {}

====
